---- MODULE Spec2Model ----
(***************************************************************************)
(* Container layout of the typesetting library: BoxNode::layout,           *)
(* BlockNode::layout and BlockNode::set of library/src/layout/container.rs *)
(*                                                                         *)
(* Lengths are integers (tenths of a point), ratios are integer percents.  *)
(* Every length drawn below is a multiple of 10 and every ratio a multiple *)
(* of 50, so that ratio * length / 100 is exact.                           *)
(***************************************************************************)
EXTENDS Integers, Sequences, FiniteSets, TLC

VARIABLES fn, self, styles, regions, args, map, pc, result, trace, calls

vars == <<fn, self, styles, regions, args, map, pc, result, trace, calls>>

(* ------------------------------ bounds --------------------------------- *)

MaxFrames == 2
MaxDim == 2
MaxShare == 1
MaxSpacing == 2

(* ------------------------- Option, Axes, Sides -------------------------- *)

None == <<>>
Some(v) == <<v>>
is_some(o) == o # <<>>

Axes(a, b) == [x |-> a, y |-> b]
Sides(l, t, r, b) == [left |-> l, top |-> t, right |-> r, bottom |-> b]
SideNames == {"left", "top", "right", "bottom"}
splat(v) == Sides(v, v, v, v)

(* ------------------------- Length, Rel, Smart --------------------------- *)

Length(a, e) == [abs |-> a, em |-> e]
Rel(r, a) == [rel |-> r, abs |-> a]

\* Length::resolve: an em length is converted against the font size.
resolve(rel, st) == Rel(rel.rel, rel.abs.abs + rel.abs.em * st.em)

\* Rel<Abs>::relative_to: ratio of the whole plus the absolute part.
relative_to(rel, whole) == (rel.rel * whole) \div 100 + rel.abs

\* Rel::is_zero: both the ratio and the absolute part are zero.
is_zero(rel) == rel.rel = 0 /\ rel.abs = 0

\* Length::from(Abs), applied to the absolute part of a Rel<Abs>.
from_abs(rel) == Rel(rel.rel, Length(rel.abs, 0))

Auto == [kind |-> "Auto"]
Custom(v) == [kind |-> "Custom", v |-> v]
is_auto(s) == s.kind = "Auto"

SizingAuto == [kind |-> "Auto"]
SizingRel(rel) == [kind |-> "Rel", rel |-> rel]
SizingFr(fr) == [kind |-> "Fr", fr |-> fr]

\* Ratio::one().into(): 100% with no absolute part.
RatioOne == Rel(100, Length(0, 0))

(* ------------------------------ Regions --------------------------------- *)

\* Regions::base: the base size relative lengths are resolved against.
base(rg) == rg.base

\* Regions::one: a single region of the given size.
Regions_one(size, expand) ==
    [size |-> size, base |-> size, backlog |-> <<>>, expand |-> expand]

RegionHeight(rg, i) ==
    IF i = 1 THEN rg.size.y
    ELSE IF i - 1 <= Len(rg.backlog) THEN rg.backlog[i - 1]
    ELSE rg.size.y

(* ------------------------------- Frame ---------------------------------- *)

\* Frame::baseline: the baseline, the bottom edge when none was set.
baseline(frame) ==
    IF frame.baseline = None THEN frame.size.y ELSE frame.baseline[1]

set_baseline(frame, b) == [frame EXCEPT !.baseline = Some(b)]

\* PartialStroke::unwrap_or_default: unset fields take the defaults.
unwrap_or_default(p) ==
    [paint |-> IF p.paint = None THEN "black" ELSE p.paint[1],
     thickness |-> IF p.thickness = None THEN 10 ELSE p.thickness[1]]

\* Frame::fill_and_stroke: prepends one shape; the frame's box is untouched.
fill_and_stroke(frame, fill, stroke, outset, radius) ==
    [frame EXCEPT !.items =
        <<[kind |-> "shape", fill |-> fill, stroke |-> stroke,
           outset |-> outset, radius |-> radius]>> \o @]

\* Frame::meta: attaches the style chain as metadata.
meta(frame, st) ==
    [frame EXCEPT !.items = <<[kind |-> "meta", styles |-> st]>> \o @]

(* ------------------------------ Content --------------------------------- *)

\* Content::padded: a new padding node around the content.
padded(content, padding) ==
    [kind |-> "pad", padding |-> padding, body |-> content]

Ok(frames) == [tag |-> "ok", frames |-> frames]
Err(e) == [tag |-> "err", error |-> e]

\* The content capability: layout of an element, or of a padded element.
ContentLayout(content, st, rg) ==
    LET isPad == content.kind = "pad"
        body == IF isPad THEN content.body ELSE content
        p == IF isPad
             THEN [s \in SideNames |-> resolve(content.padding[s], st)]
             ELSE splat(Rel(0, 0))
        padx == relative_to(p.left, rg.size.x) + relative_to(p.right, rg.size.x)
        pady == relative_to(p.top, rg.size.y) + relative_to(p.bottom, rg.size.y)
        frameOf(i) ==
            [size |-> Axes(IF rg.expand.x THEN rg.size.x
                           ELSE body.natural.x + padx,
                           IF rg.expand.y THEN RegionHeight(rg, i)
                           ELSE body.natural.y + pady),
             baseline |-> body.baseline,
             items |-> <<[kind |-> "elem", region |-> i]>>]
    IN  IF ~body.ok THEN Err(body.error)
        ELSE Ok([i \in 1..body.k |-> frameOf(i)])

\* Fragment::into_frame: the only frame; more or fewer than one is a panic.
into_frame(frames) ==
    IF Len(frames) = 1 THEN [tag |-> "ok", frame |-> frames[1]]
    ELSE [tag |-> "panic", message |-> "expected exactly one frame"]

(* ---------------------------- BoxNode::layout --------------------------- *)

\* Variant of BoxWidth: a fractional width is left to the content.
BoxWidthFrAuto(width) ==
    IF width.kind = "Rel" THEN Custom(width.rel) ELSE Auto

\* The width as a Smart value: a fractional width counts as 100%.
BoxWidth(width) ==
    IF width.kind = "Auto" THEN Auto
    ELSE IF width.kind = "Rel" THEN Custom(width.rel)
    ELSE Custom(RatioOne)

\* Axes<Smart<Abs>>::unwrap_or, one axis.
unwrap_or(s, other) == IF is_auto(s) THEN other ELSE s.v

\* Variant of BoxSize: relative to the region's size instead of its base.
BoxSizeOfRegion(sizing, st, rg) ==
    Axes(unwrap_or(IF is_auto(sizing.x) THEN Auto
                   ELSE Custom(relative_to(resolve(sizing.x.v, st), rg.size.x)),
                   rg.size.x),
         unwrap_or(IF is_auto(sizing.y) THEN Auto
                   ELSE Custom(relative_to(resolve(sizing.y.v, st), rg.size.y)),
                   rg.size.y))

\* Resolve the sizing to a concrete size.
BoxSize(sizing, st, rg) ==
    Axes(unwrap_or(IF is_auto(sizing.x) THEN Auto
                   ELSE Custom(relative_to(resolve(sizing.x.v, st), base(rg).x)),
                   rg.size.x),
         unwrap_or(IF is_auto(sizing.y) THEN Auto
                   ELSE Custom(relative_to(resolve(sizing.y.v, st), base(rg).y)),
                   rg.size.y))

\* Variant of BoxChild: pads whatever the inset is.
BoxChildAlwaysPadded(body, inset) ==
    padded(body, [s \in SideNames |-> from_abs(inset[s])])

\* Apply inset.
BoxChild(body, inset) ==
    IF \E s \in SideNames : ~is_zero(inset[s])
    THEN padded(body, [s \in SideNames |-> from_abs(inset[s])])
    ELSE body

\* Variant of BoxExpand: the ambient flags alone.
BoxExpandAmbient(expand, auto) == expand

\* Expansion of the child: the ambient flag, or the axis is sized.
BoxExpand(expand, auto) ==
    Axes(expand.x \/ ~auto.x, expand.y \/ ~auto.y)

\* Variant of BoxChildFrame: takes the first frame and drops the rest.
BoxChildFrameFirst(laid) ==
    IF laid.tag = "err" THEN laid
    ELSE [tag |-> "ok", frame |-> laid.frames[1]]

\* Variant of BoxChildFrame: an empty frame stands in for a failure.
BoxChildFrameZero(laid) ==
    IF laid.tag = "err"
    THEN [tag |-> "ok",
          frame |-> [size |-> Axes(0, 0), baseline |-> None, items |-> <<>>]]
    ELSE into_frame(laid.frames)

\* child.layout(vt, styles, pod)?.into_frame()
BoxChildFrame(laid) ==
    IF laid.tag = "err" THEN laid ELSE into_frame(laid.frames)

\* The baseline shift, relative to the frame's height.
BoxShift(st, frame) == relative_to(st.baseline, frame.size.y)

\* Variant of BoxBaseline: the shift is added.
BoxBaselineDown(frame, shift) ==
    IF shift # 0 THEN set_baseline(frame, baseline(frame) + shift) ELSE frame

\* Apply baseline shift.
BoxBaseline(frame, shift) ==
    IF shift # 0 THEN set_baseline(frame, baseline(frame) - shift) ELSE frame

\* Prepare fill and stroke.
Stroke(st) ==
    [s \in SideNames |->
        IF st.stroke[s] = None THEN None
        ELSE Some(unwrap_or_default(st.stroke[s][1]))]

\* Variant of BoxHasDecoration: the stroke is not looked at.
BoxHasDecorationFillOnly(fill, stroke) == is_some(fill)

\* fill.is_some() || stroke.iter().any(Option::is_some)
BoxHasDecoration(fill, stroke) ==
    is_some(fill) \/ \E s \in SideNames : is_some(stroke[s])

BoxNode_layout(node, st, rg) ==
    LET width == BoxWidth(node.width)
        sizing == Axes(width, node.height)
        size == BoxSize(sizing, st, rg)
        inset == st.inset
        child == BoxChild(node.body, inset)
        auto == Axes(is_auto(sizing.x), is_auto(sizing.y))
        expand == BoxExpand(rg.expand, auto)
        pod == Regions_one(size, expand)
        laid == ContentLayout(child, st, pod)
        call == [content |-> child, styles |-> st, regions |-> pod]
        t0 == <<"get:INSET">>
              \o (IF child = node.body THEN <<>> ELSE <<"padded">>)
              \o <<"layout">>
        taken == BoxChildFrame(laid)
    IN  IF taken.tag # "ok"
        THEN [result |-> taken, trace |-> t0, calls |-> <<call>>]
        ELSE
          LET frame0 == taken.frame
              shift == BoxShift(st, frame0)
              frame1 == BoxBaseline(frame0, shift)
              fill == st.fill
              stroke == Stroke(st)
              deco == BoxHasDecoration(fill, stroke)
              frame2 == IF deco
                        THEN fill_and_stroke(frame1, fill, stroke,
                                             st.outset, st.radius)
                        ELSE frame1
              frame3 == meta(frame2, st)
              t1 == t0 \o <<"get:BASELINE">>
                    \o (IF frame1 = frame0 THEN <<>> ELSE <<"set_baseline">>)
                    \o <<"get:FILL", "get:STROKE">>
                    \o (IF deco
                        THEN <<"get:OUTSET", "get:RADIUS", "fill_and_stroke">>
                        ELSE <<>>)
                    \o <<"meta">>
          IN  [result |-> Ok(<<frame3>>), trace |-> t1, calls |-> <<call>>]

(* --------------------------- BlockNode::layout -------------------------- *)

\* Apply inset.
BlockChild(body, inset) ==
    IF \E s \in SideNames : ~is_zero(inset[s])
    THEN padded(body, [s \in SideNames |-> from_abs(inset[s])])
    ELSE body

\* fill.is_some() || stroke.iter().any(Option::is_some)
BlockHasDecoration(fill, stroke) ==
    is_some(fill) \/ \E s \in SideNames : is_some(stroke[s])

\* Variant of BlockFill: only the first frame is decorated.
BlockFillFirstOnly(frames, fill, stroke, outset, radius) ==
    [i \in 1..Len(frames) |->
        IF i = 1
        THEN fill_and_stroke(frames[i], fill, stroke, outset, radius)
        ELSE frames[i]]

\* for frame in &mut frames { frame.fill_and_stroke(..) }
BlockFill(frames, fill, stroke, outset, radius) ==
    [i \in 1..Len(frames) |->
        fill_and_stroke(frames[i], fill, stroke, outset, radius)]

\* for frame in &mut frames { frame.meta(styles) }
BlockMeta(frames, st) == [i \in 1..Len(frames) |-> meta(frames[i], st)]

Repeat(n, e) == [i \in 1..n |-> e]

BlockNode_layout(node, st, rg) ==
    LET inset == st.inset
        child == BlockChild(node.body, inset)
        laid == ContentLayout(child, st, rg)
        call == [content |-> child, styles |-> st, regions |-> rg]
        t0 == <<"get:INSET">>
              \o (IF child = node.body THEN <<>> ELSE <<"padded">>)
              \o <<"layout">>
    IN  IF laid.tag = "err"
        THEN [result |-> laid, trace |-> t0, calls |-> <<call>>]
        ELSE
          LET frames0 == laid.frames
              fill == st.fill
              stroke == Stroke(st)
              deco == BlockHasDecoration(fill, stroke)
              frames1 == IF deco
                         THEN BlockFill(frames0, fill, stroke,
                                        st.outset, st.radius)
                         ELSE frames0
              frames2 == BlockMeta(frames1, st)
              t1 == t0 \o <<"get:FILL", "get:STROKE">>
                    \o (IF deco
                        THEN <<"get:OUTSET", "get:RADIUS">>
                             \o Repeat(Len(frames0), "fill_and_stroke")
                        ELSE <<>>)
                    \o Repeat(Len(frames0), "meta")
          IN  [result |-> Ok(frames2), trace |-> t1, calls |-> <<call>>]

(* ----------------------------- BlockNode::set --------------------------- *)

DefaultSpacing == 12

\* VNode::block_spacing and VNode::block_around: spacing nodes that differ
\* in how weak they are.
block_spacing(amount) == [amount |-> amount, ctor |-> "block_spacing"]
block_around(amount) == [amount |-> amount, ctor |-> "block_around"]

\* Option::or
opt_or(o, other) == IF o = None THEN other ELSE o

\* StyleMap::set_opt: set the property when a value is given.
set_opt(m, key, o) == IF o = None THEN m ELSE [m EXCEPT ![key] = o[1]]

\* args.named(name)?.map(VNode::block_spacing)
named_spacing(o) == IF o = None THEN None ELSE Some(block_spacing(o[1]))

\* args.named(name)?.map(VNode::block_around)
named_around(o) == IF o = None THEN None ELSE Some(block_around(o[1]))

\* Variant of BlockNode_set: `spacing` wins over `above` and `below`.
BlockNode_setSpacingFirst(a, m) ==
    LET spacing == named_spacing(a.spacing)
    IN  set_opt(set_opt(m, "above", opt_or(spacing, named_around(a.above))),
                "below", opt_or(spacing, named_around(a.below)))

\* `above` and `below` take precedence over `spacing`.
BlockNode_set(a, m) ==
    LET spacing == named_spacing(a.spacing)
    IN  set_opt(set_opt(m, "above", opt_or(named_around(a.above), spacing)),
                "below", opt_or(named_around(a.below), spacing))

\* BlockNode::ABOVE and BlockNode::BELOW before any set rule.
DefaultMap ==
    [above |-> block_spacing(DefaultSpacing),
     below |-> block_spacing(DefaultSpacing)]

(* ------------------------------- inputs --------------------------------- *)

Dims == {100 * k : k \in 1..MaxDim}

\* Relative lengths: a pure offset, a half with a negative em-based offset,
\* and a full ratio.
Rels == {Rel(0, Length(10, 0)), Rel(50, Length(-30, 1)), Rel(100, Length(0, 0))}

Widths == {SizingAuto} \cup {SizingRel(r) : r \in Rels}
          \cup {SizingFr(f) : f \in 1..MaxShare}
Heights == {Auto} \cup {Custom(r) : r \in Rels}

Bodies ==
    {[kind |-> "elem", natural |-> Axes(50, 100), ok |-> FALSE, k |-> 0,
      baseline |-> None, error |-> "content layout failure"]}
    \cup {[kind |-> "elem", natural |-> Axes(50, 100), ok |-> TRUE, k |-> n,
           baseline |-> b, error |-> "none"] :
          n \in 1..MaxFrames, b \in {None, Some(80)}}

BoxNodes == [type : {"box"}, body : Bodies, width : Widths, height : Heights]
BlockNodes == [type : {"block"}, body : Bodies]

Insets == {splat(Rel(0, 0)),
           Sides(Rel(0, 0), Rel(0, 0), Rel(0, 0), Rel(0, 10))}
Baselines == {Rel(0, 0), Rel(50, 0)}
Fills == {None, Some("luma")}
PartialStrokes == {[paint |-> None, thickness |-> Some(20)]}
Strokes == {splat(None)}
           \cup {Sides(None, None, Some(p), None) : p \in PartialStrokes}
Outsets == {Sides(Rel(0, 0), Rel(0, 30), Rel(0, 0), Rel(0, 30))}
Radii == {Rel(0, 20)}

StyleChains ==
    [em : {20}, inset : Insets, baseline : Baselines, fill : Fills,
     stroke : Strokes, outset : Outsets, radius : Radii]

\* The first region's size, the base (the size or a larger full size) and
\* the expansion flags; the backlog holds the heights of further regions.
RegionsOf(backlogs) ==
    {[size |-> Axes(w, 100 * (MaxDim + 1) - w),
      base |-> Axes(w + 100 * d, 100 * (MaxDim + 1) - w + 100 * d),
      backlog |-> bl,
      expand |-> Axes(ex, ey)] :
     w \in Dims, d \in {0, 1}, bl \in backlogs, ex \in BOOLEAN, ey \in BOOLEAN}

BoxRegions == RegionsOf({<<>>, <<100>>})
BlockRegions == RegionsOf({<<>>, <<100>>})

Spacings == 1..MaxSpacing
OptSpacings == {None} \cup {Some(a) : a \in Spacings}
SetArgs == [spacing : OptSpacings, above : OptSpacings, below : OptSpacings]

NoNode == [type |-> "none"]
NoStyles == [em |-> 0]
NoRegions == [size |-> Axes(0, 0)]
NoArgs == [spacing |-> None, above |-> None, below |-> None]
NoResult == [tag |-> "none"]

(* --------------------------- state machine ------------------------------ *)

Init ==
    /\ pc = "ready"
    /\ result = NoResult
    /\ trace = <<>>
    /\ calls = <<>>
    /\ args = NoArgs
    /\ map = DefaultMap
    /\ \/ /\ fn = "BoxNode::layout"
          /\ self \in BoxNodes
          /\ styles \in StyleChains
          /\ regions \in BoxRegions
       \/ /\ fn = "BlockNode::layout"
          /\ self \in BlockNodes
          /\ styles \in StyleChains
          /\ regions \in BlockRegions
       \/ /\ fn = "BlockNode::set"
          /\ self = NoNode
          /\ styles = NoStyles
          /\ regions = NoRegions

BoxLayout ==
    /\ fn = "BoxNode::layout"
    /\ pc = "ready"
    /\ LET r == BoxNode_layout(self, styles, regions)
       IN  /\ result' = r.result
           /\ trace' = r.trace
           /\ calls' = r.calls
    /\ pc' = "done"
    /\ UNCHANGED <<fn, self, styles, regions, args, map>>

BlockLayout ==
    /\ fn = "BlockNode::layout"
    /\ pc = "ready"
    /\ LET r == BlockNode_layout(self, styles, regions)
       IN  /\ result' = r.result
           /\ trace' = r.trace
           /\ calls' = r.calls
    /\ pc' = "done"
    /\ UNCHANGED <<fn, self, styles, regions, args, map>>

BlockSet ==
    /\ fn = "BlockNode::set"
    /\ \E a \in SetArgs :
          /\ args' = a
          /\ map' = BlockNode_set(a, map)
    /\ pc' = "done"
    /\ UNCHANGED <<fn, self, styles, regions, result, trace, calls>>

Next == BoxLayout \/ BlockLayout \/ BlockSet

Spec == Init /\ [][Next]_vars

(* ------------------------------ properties ------------------------------ *)

BoxDone == fn = "BoxNode::layout" /\ pc = "done"
BlockDone == fn = "BlockNode::layout" /\ pc = "done"

\* What the content's layout returned to the recorded call.
Laid == ContentLayout(calls[1].content, calls[1].styles, calls[1].regions)

\* The region descriptor the content was laid out in.
Pod == calls[1].regions

Visible == styles.fill # None \/ \E s \in SideNames : styles.stroke[s] # None

InsetNonZero ==
    \E s \in SideNames : styles.inset[s].rel # 0 \/ styles.inset[s].abs # 0

OfKind(items, k) == LET Is(e) == e.kind = k IN SelectSeq(items, Is)
NotAdded(items) ==
    LET Is(e) == e.kind # "shape" /\ e.kind # "meta" IN SelectSeq(items, Is)
Occurs(t, ev) == Len(LET Is(e) == e = ev IN SelectSeq(t, Is))

\* C1: a Box returns a one-frame fragment when its content returns exactly
\* one frame, and is rejected (no fragment at all, in particular none that
\* holds only the first frame) when its content returns more than one.
C1_BoxSingleFrame ==
    BoxDone /\ Laid.tag = "ok" =>
        /\ Len(Laid.frames) = 1 => result.tag = "ok" /\ Len(result.frames) = 1
        /\ Len(Laid.frames) > 1 => result.tag = "panic"

C1_Witness ==
    BoxDone /\ Laid.tag = "ok" /\ Len(Laid.frames) > 1 /\ result.tag = "panic"

\* C2: a Block hands the caller's region descriptor to the content
\* unmodified and returns exactly the content's k frames in order; when
\* fill or stroke is visible every frame carries one decoration with the
\* same fill, stroke, outset and radius, and every frame carries the style
\* metadata exactly once whether or not a decoration is visible.
C2_BlockPassThrough ==
    BlockDone =>
        /\ Len(calls) = 1
        /\ Pod = regions
        /\ Laid.tag = "ok" =>
            /\ result.tag = "ok"
            /\ Len(result.frames) = Len(Laid.frames)
            /\ \A i \in 1..Len(Laid.frames) :
                LET f == result.frames[i]
                    shapes == OfKind(f.items, "shape")
                    metas == OfKind(f.items, "meta")
                IN  /\ NotAdded(f.items) = Laid.frames[i].items
                    /\ f.size = Laid.frames[i].size
                    /\ Len(shapes) = IF Visible THEN 1 ELSE 0
                    /\ \A j \in 1..Len(shapes) :
                        /\ shapes[j].fill = styles.fill
                        /\ shapes[j].stroke = Stroke(styles)
                        /\ shapes[j].outset = styles.outset
                        /\ shapes[j].radius = styles.radius
                    /\ Len(metas) = 1
                    /\ metas[1].styles = styles

C2_Witness ==
    /\ BlockDone /\ Visible /\ result.tag = "ok" /\ Len(result.frames) >= 2
    /\ Len(regions.backlog) >= 1
    /\ \A i \in 1..Len(result.frames) :
        Len(OfKind(result.frames[i].items, "shape")) = 1

\* C3: a Box lays its child out in a single region whose expand flag on each
\* axis is the caller's flag OR "the axis is not Auto"; width 100% of a base
\* width of 200 with ambient expand false gives width 200 and expand true.
C3_BoxExpand ==
    BoxDone =>
        /\ Len(calls) = 1
        /\ Pod.backlog = <<>>
        /\ Pod.expand.x = (regions.expand.x \/ self.width.kind # "Auto")
        /\ Pod.expand.y = (regions.expand.y \/ self.height.kind # "Auto")
        /\ (/\ self.width = SizingRel(Rel(100, Length(0, 0)))
            /\ regions.base.x = 200
            /\ ~regions.expand.x)
           => Pod.size.x = 200 /\ Pod.expand.x

C3_Witness ==
    /\ BoxDone
    /\ self.width = SizingRel(Rel(100, Length(0, 0)))
    /\ self.height = Auto
    /\ regions.base.x = 200 /\ regions.size.x = 100
    /\ regions.expand = Axes(FALSE, FALSE)
    /\ Pod.size.x = 200
    /\ Pod.expand = Axes(TRUE, FALSE)

\* C4: the child region's size is resolved per axis: r * b + o on an axis
\* sized Relative(r, o), with b the base size of that axis; the region's own
\* current size on an Auto axis.
C4_BoxSizing ==
    BoxDone =>
        /\ self.width.kind = "Auto" => Pod.size.x = regions.size.x
        /\ self.width.kind = "Rel" =>
            100 * (Pod.size.x - (self.width.rel.abs.abs
                                 + self.width.rel.abs.em * styles.em))
                = self.width.rel.rel * regions.base.x
        /\ self.height.kind = "Auto" => Pod.size.y = regions.size.y
        /\ self.height.kind = "Custom" =>
            100 * (Pod.size.y - (self.height.v.abs.abs
                                 + self.height.v.abs.em * styles.em))
                = self.height.v.rel * regions.base.y

C4_Witness ==
    /\ BoxDone
    /\ self.width.kind = "Auto"
    /\ self.height = Custom(Rel(50, Length(-30, 1)))
    /\ regions.base.y # regions.size.y
    /\ Pod.size.x = regions.size.x
    /\ Pod.size.y = regions.base.y \div 2 - 10
    /\ Pod.size.y # regions.size.y \div 2 - 10

C6_FailureForwarded ==
    BoxDone \/ BlockDone =>
        /\ Len(calls) = 1
        /\ Occurs(trace, "layout") = 1
        /\ Laid.tag = "err" =>
            /\ result = Laid
            /\ trace[Len(trace)] = "layout"
            /\ \A ev \in {"get:BASELINE", "set_baseline", "get:FILL",
                          "get:STROKE", "fill_and_stroke", "meta"} :
                Occurs(trace, ev) = 0

C6_Witness ==
    /\ BlockDone /\ Laid.tag = "err" /\ result.tag = "err"
    /\ result.error = self.body.error
    /\ Visible /\ InsetNonZero

\* C7: the Box's baseline shift is the BASELINE style relative to the height
\* of the child's frame; a non-zero shift makes the baseline (old baseline -
\* shift) and a zero shift leaves it as the child produced it. A Block never
\* reads or changes a baseline.
C7_Baseline ==
    /\ BoxDone /\ result.tag = "ok" =>
        LET f0 == Laid.frames[1]
            old == IF f0.baseline = None THEN f0.size.y ELSE f0.baseline[1]
            shift == (styles.baseline.rel * f0.size.y) \div 100
                     + styles.baseline.abs
        IN  /\ shift # 0 => result.frames[1].baseline = Some(old - shift)
            /\ shift = 0 => result.frames[1].baseline = f0.baseline
            /\ Occurs(trace, "set_baseline") = IF shift # 0 THEN 1 ELSE 0
    /\ BlockDone /\ result.tag = "ok" =>
        /\ \A i \in 1..Len(result.frames) :
            result.frames[i].baseline = Laid.frames[i].baseline
        /\ Occurs(trace, "get:BASELINE") = 0
        /\ Occurs(trace, "set_baseline") = 0

C7_Witness ==
    /\ BoxDone /\ result.tag = "ok"
    /\ styles.baseline = Rel(50, 0)
    /\ Laid.frames[1].baseline = None
    /\ Laid.frames[1].size.y = 100 /\ Laid.frames[1].size.x # 100
    /\ result.frames[1].baseline = Some(50)

\* The layout the same call would make with other fill and stroke styles.
Relaid(fill, stroke) ==
    LET st == [styles EXCEPT !.fill = fill, !.stroke = stroke]
    IN  IF fn = "BoxNode::layout" THEN BoxNode_layout(self, st, regions)
        ELSE BlockNode_layout(self, st, regions)

\* C8: for Box and Block the decoration step runs iff fill is set or some
\* side of the stroke is set, and outset and radius are read only then; the
\* frames' count, sizes and baselines and the child's region are the same
\* whatever fill and stroke are.
C8_DecorationOnly ==
    (BoxDone \/ BlockDone) /\ result.tag = "ok" =>
        /\ \A i \in 1..Len(result.frames) :
            Len(OfKind(result.frames[i].items, "shape"))
                = IF Visible THEN 1 ELSE 0
        /\ Occurs(trace, "fill_and_stroke")
            = IF Visible THEN Len(result.frames) ELSE 0
        /\ Occurs(trace, "get:OUTSET") = IF Visible THEN 1 ELSE 0
        /\ Occurs(trace, "get:RADIUS") = IF Visible THEN 1 ELSE 0
        /\ \A fill \in Fills, stroke \in Strokes :
            LET other == Relaid(fill, stroke)
            IN  /\ other.result.tag = "ok"
                /\ Len(other.result.frames) = Len(result.frames)
                /\ \A i \in 1..Len(result.frames) :
                    /\ other.result.frames[i].size = result.frames[i].size
                    /\ other.result.frames[i].baseline
                        = result.frames[i].baseline
                /\ other.calls[1].regions = Pod
                /\ other.calls[1].content = calls[1].content

C8_Witness ==
    /\ BoxDone /\ result.tag = "ok"
    /\ styles.fill = None /\ styles.stroke # splat(None)
    /\ Len(OfKind(result.frames[1].items, "shape")) = 1
    /\ Relaid(None, splat(None)).result.frames[1].size = result.frames[1].size
    /\ Len(OfKind(Relaid(None, splat(None)).result.frames[1].items, "shape"))
        = 0

\* C9: a set rule sets ABOVE from `above` when given, else from `spacing`
\* when given, else leaves it unchanged; BELOW likewise from `below`, then
\* `spacing`.
C9_SetPrecedence ==
    [][fn = "BlockNode::set" =>
        /\ map'.above =
            IF args'.above # None THEN block_around(args'.above[1])
            ELSE IF args'.spacing # None THEN block_spacing(args'.spacing[1])
            ELSE map.above
        /\ map'.below =
            IF args'.below # None THEN block_around(args'.below[1])
            ELSE IF args'.spacing # None THEN block_spacing(args'.spacing[1])
            ELSE map.below]_vars

C9_Witness ==
    /\ fn = "BlockNode::set" /\ pc = "done"
    /\ args = [spacing |-> Some(1), above |-> Some(2), below |-> None]
    /\ map.above = block_around(2)
    /\ map.below = block_spacing(1)

\* C10: the content laid out is the node's body wrapped in padding iff some
\* side of the inset is non-zero, and the body itself otherwise; the node's
\* body is the same value after the call as before.
C10_InsetWrap ==
    [][pc = "ready" /\ pc' = "done" /\ fn # "BlockNode::set" =>
        /\ self'.body = self.body
        /\ calls'[1].content =
            IF InsetNonZero
            THEN [kind |-> "pad",
                  padding |-> [s \in SideNames |->
                      Rel(styles.inset[s].rel,
                          Length(styles.inset[s].abs, 0))],
                  body |-> self.body]
            ELSE self.body]_vars

C10_Witness ==
    /\ BoxDone /\ ~InsetNonZero /\ result.tag = "ok"
    /\ calls[1].content = self.body
    /\ calls[1].content.kind = "elem"

====
